---------------------------- MODULE Spec2Model ----------------------------
(***************************************************************************)
(* Model of the SDRB claim pipeline: the scorer (src/agents/scorer.py),    *)
(* the verifier (src/agents/verifier.py), the two extractors               *)
(* (src/agents/extractor.py, src/ai/email_parser_llm.py) and the two batch *)
(* loops (runner.py, src/agents/extractor_agent.py).                       *)
(*                                                                         *)
(* Python values are tagged records, so that None, numbers, strings and    *)
(* booleans can sit in the same dictionary slot:                           *)
(*   None == [none |-> TRUE]   Num(n) == [num |-> n]   Str(s) == [str |-> s]*)
(* Confidences and scores are fixed point integers in units of 1/10000     *)
(* (ONE = 1.0); money amounts are integers in units of 1/100               *)
(* (TOLERANCE = 1.0).                                                      *)
(***************************************************************************)
EXTENDS Integers, Sequences, FiniteSets, TLC

VARIABLES
    sc_in,      \* compute_score: the arguments of the call
    sc_out,     \* compute_score: the returned dict, NoResult before the call
    vf_in,      \* verify: the extraction, the record store and whether it is reachable
    vf_out,     \* verify: the returned dict, NoResult before the call
    cache_file, \* the content of the extraction cache file: key -> raw provider output
    clock,      \* datetime.utcnow() at the latest call
    es_prev,    \* extract_structured: the call before the latest one
    es_last,    \* extract_structured: the latest call, its arguments and its outcome
    succeeded,  \* history: keys a cache-sharing call got from the provider
    reinvoked,  \* history: keys the provider was asked for again after that
    pc,         \* the batch program: idle, run_extraction, process_all, done, aborted
    total,      \* the number of emails of the batch
    idx,        \* the number of emails of the batch read so far
    written,    \* the records written (run_extraction) or the summaries (process_all)
    world,      \* process_all: whether the provider is available, and the record store
    ex_last,    \* extract: the latest call, its arguments and its outcome
    failed,     \* history: positions in the batch where the provider failed
    produced,   \* history: positions in the batch with an output record
    mg_in,      \* the merge step: the email text and the provider's parsed output
    mg_out      \* the merge step: result before and after the loop, NoResult before it

vars == <<sc_in, sc_out, vf_in, vf_out, cache_file, clock, es_prev, es_last,
          succeeded, reinvoked, pc, total, idx, written, world, ex_last, failed, produced,
          mg_in, mg_out>>

batchVars == <<pc, total, idx, written, world, ex_last, failed, produced>>

scoreVars == <<sc_in, sc_out>>
verifyVars == <<vf_in, vf_out>>
cacheVars == <<cache_file, clock, es_prev, es_last, succeeded, reinvoked>>
mergeVars == <<mg_in, mg_out>>

---------------------------------------------------------------------------
(* Python values *)

None == [none |-> TRUE]
Num(n) == [num |-> n]
Str(s) == [str |-> s]
Bool(b) == [bool |-> b]

IsNone(v) == v = None
IsNum(v) == DOMAIN v = {"num"}
IsStr(v) == DOMAIN v = {"str"}
IsBool(v) == DOMAIN v = {"bool"}

\* Python truthiness: None, 0, 0.0, "" and False are falsy.
Truthy(v) ==
    IF IsNum(v) THEN v.num # 0
    ELSE IF IsStr(v) THEN v.str # ""
    ELSE IF IsBool(v) THEN v.bool
    ELSE FALSE

NoResult == [noresult |-> TRUE]

EmptyDict == [x \in {} |-> x]

\* The state of the cache file and of the call history before any call.
CacheIdle ==
    /\ cache_file = EmptyDict
    /\ clock = 0
    /\ es_prev = NoResult
    /\ es_last = NoResult
    /\ succeeded = {}
    /\ reinvoked = {}

\* No batch program is running.
BatchIdle ==
    /\ pc = "idle"
    /\ total = 0
    /\ idx = 0
    /\ written = <<>>
    /\ world = NoResult
    /\ ex_last = NoResult
    /\ failed = {}
    /\ produced = {}

\* No merge step has been looked at.
MergeIdle ==
    /\ mg_in = NoResult
    /\ mg_out = NoResult

Max(a, b) == IF a >= b THEN a ELSE b
Min(a, b) == IF a <= b THEN a ELSE b
Abs(a) == IF a >= 0 THEN a ELSE 0 - a

---------------------------------------------------------------------------
(* src/agents/scorer.py *)

ONE == 10000
DEFAULT_CONFIDENCE == 5000
BUMP_CONTRADICTIONS == 3500
BUMP_INVOICE_MISSING == 3000
BUMP_SENDER == 1500
HOLD_THRESHOLD == 7500
DOCS_THRESHOLD == 3500

\* round(score, 3): to the nearest 1/1000, kept in units of 1/10000.  The inputs
\* of the model never end in a 5 in the fourth decimal, where the direction of
\* the tie depends on the binary representation of the float.
Round3(x) == ((x + 5) \div 10) * 10

\* A sender string is a sequence of chunks; lower() acts chunk by chunk.
LowerChunk(c) ==
    CASE c = "AP" -> "ap"
      [] c = "@ABCCHEM.COM" -> "@abcchem.com"
      [] OTHER -> c

Lower(s) == [i \in 1..Len(s) |-> LowerChunk(s[i])]

\* str.endswith("@abcchem.com"): the chunks of the model never split the suffix.
EndsWithTrusted(s) == Len(s) > 0 /\ s[Len(s)] = "@abcchem.com"

\* Mutant: the "not" of the sender test is lost.
SenderBumpInverted(sender) ==
    IF Len(sender) > 0 /\ EndsWithTrusted(Lower(sender)) THEN BUMP_SENDER ELSE 0

\* scorer.py 23-25: the sender domain check.
SenderBump(sender) ==
    IF Len(sender) > 0 /\ ~EndsWithTrusted(Lower(sender)) THEN BUMP_SENDER ELSE 0

compute_score(extraction, verification, sender) ==
    LET c == extraction.confidence
        \* float(extraction.get("confidence", 0.5) or 0.5)
        confidence == IF Truthy(c) THEN c.num ELSE DEFAULT_CONFIDENCE
        hasContra == Len(verification.contradictions) > 0
        invMissing == Truthy(extraction.invoice_number)
                        /\ ~Truthy(verification.invoice_exists)
        badSender == SenderBump(sender) # 0
        base == (ONE - confidence)
                  + (IF hasContra THEN BUMP_CONTRADICTIONS ELSE 0)
                  + (IF invMissing THEN BUMP_INVOICE_MISSING ELSE 0)
                  + SenderBump(sender)
        reasons == (IF hasContra THEN verification.contradictions ELSE <<>>)
                     \o (IF invMissing THEN <<"invoice_missing_in_sap">> ELSE <<>>)
                     \o (IF badSender THEN <<"non_standard_sender">> ELSE <<>>)
        score == Max(0, Min(ONE, base))
        action == IF score >= HOLD_THRESHOLD THEN "HOLD_PAYMENT"
                  ELSE IF score >= DOCS_THRESHOLD THEN "REQUEST_DOCS"
                  ELSE "AUTO_APPROVE"
    IN  [suspicious_score |-> Round3(score), action |-> action, reasons |-> reasons]

\* Inputs of the scorer checks.
ConfidenceGrid ==
    {Num(n) : n \in {0, 1, 2496, 2500, 2504, 4000, 6000, 6496, 6500, 6504,
                     9000, 9999, 10000, 12000}} \cup {None}

ContradictionLists ==
    { <<>>, <<"not_received_but_grn_exists">>, <<"amount_mismatch">>,
      <<"not_received_but_grn_exists", "amount_mismatch">> }

InvoiceNumbers == {None, Str(""), Str("INV-4521")}

Senders ==
    { <<>>, <<"ap", "@abcchem.com">>, <<"AP", "@ABCCHEM.COM">>,
      <<"a", "@other.com">>, <<"ap", "@abcchem.com", ".evil">> }

ScoreInputs ==
    [ extraction : [invoice_number : InvoiceNumbers, confidence : ConfidenceGrid],
      verification : [contradictions : ContradictionLists,
                      invoice_exists : {Bool(TRUE), Bool(FALSE)}],
      sender : Senders ]

ScoreInit ==
    /\ sc_in \in ScoreInputs
    /\ sc_out = NoResult
    /\ vf_in = NoResult
    /\ vf_out = NoResult
    /\ CacheIdle
    /\ BatchIdle
    /\ MergeIdle

ScoreCall ==
    /\ sc_out = NoResult
    /\ sc_out' = compute_score(sc_in.extraction, sc_in.verification, sc_in.sender)
    /\ UNCHANGED <<sc_in, verifyVars, cacheVars, batchVars, mergeVars>>

ScoreReset ==
    /\ sc_out # NoResult
    /\ sc_in' \in ScoreInputs
    /\ sc_out' = NoResult
    /\ UNCHANGED <<verifyVars, cacheVars, batchVars, mergeVars>>

ScoreNext == ScoreCall \/ ScoreReset

SpecScore == ScoreInit /\ [][ScoreNext]_vars

---------------------------------------------------------------------------
(* Claims about compute_score *)

Scored == sc_out # NoResult

\* What the specification's formula gives for the current input.
FormulaScore ==
    LET e == sc_in.extraction
        v == sc_in.verification
        s == sc_in.sender
        raw == (ONE - e.confidence.num)
                 + (IF v.contradictions # <<>> THEN 3500 ELSE 0)
                 + (IF ~IsNone(e.invoice_number) /\ e.invoice_number # Str("")
                       /\ ~v.invoice_exists.bool THEN 3000 ELSE 0)
                 + (IF s # <<>> /\ Lower(s)[Len(s)] # "@abcchem.com" THEN 1500 ELSE 0)
    IN  Round3(IF raw < 0 THEN 0 ELSE IF raw > ONE THEN ONE ELSE raw)

ConfidenceInUnitInterval ==
    IsNum(sc_in.extraction.confidence)
      /\ sc_in.extraction.confidence.num \in 0..ONE

\* C3: for every confidence c in [0,1], endpoints included, the returned score is
\* clamp(1 - c + 0.35*[contradictions] + 0.30*[invoice missing] + 0.15*[sender
\* not trusted], 0, 1) rounded to 3 decimals, and so lies in [0,1].
C3_ScoreIsFormula ==
    (Scored /\ ConfidenceInUnitInterval)
      => /\ sc_out.suspicious_score = FormulaScore
         /\ sc_out.suspicious_score \in 0..ONE

\* C4: the returned action is the threshold policy applied to the returned score.
C4_ActionFollowsReturnedScore ==
    Scored =>
      /\ (sc_out.action = "HOLD_PAYMENT") <=> (sc_out.suspicious_score >= 7500)
      /\ (sc_out.action = "REQUEST_DOCS")
            <=> (sc_out.suspicious_score >= 3500 /\ sc_out.suspicious_score < 7500)
      /\ (sc_out.action = "AUTO_APPROVE") <=> (sc_out.suspicious_score < 3500)

\* The inputs that are sc_in with one more suspicion condition.
WithExtraCondition ==
    { [sc_in EXCEPT !.verification.contradictions = c] :
        c \in { d \in ContradictionLists :
                  Len(d) = Len(sc_in.verification.contradictions) + 1 } }
    \cup (IF sc_in.verification.invoice_exists.bool
          THEN { [sc_in EXCEPT !.verification.invoice_exists = Bool(FALSE)] }
          ELSE {})
    \cup (IF sc_in.sender = <<>> \/ EndsWithTrusted(Lower(sc_in.sender))
          THEN { [sc_in EXCEPT !.sender = s] :
                   s \in { t \in Senders : t # <<>> /\ ~EndsWithTrusted(Lower(t)) } }
          ELSE {})

ScoreOf(in) == compute_score(in.extraction, in.verification, in.sender).suspicious_score

\* C5: an input that differs from the scored one only by an extra contradiction,
\* by the invoice being marked missing, or by an untrusted sender never scores
\* lower than the scored one.
C5_Monotone ==
    Scored => \A w \in WithExtraCondition : ScoreOf(w) >= sc_out.suspicious_score

\* C5 witness: a scored input with a trusted sender whose score rises strictly
\* when the sender is replaced by an untrusted one.
C5_Witness ==
    /\ Scored
    /\ sc_in.sender = <<"ap", "@abcchem.com">>
    /\ \E w \in WithExtraCondition :
          w.sender = <<"a", "@other.com">> /\ ScoreOf(w) > sc_out.suspicious_score

---------------------------------------------------------------------------
(* src/agents/verifier.py *)

TOLERANCE == 100

\* float(s) for the strings of the model: a number, or None where float raises.
ParseFloat(s) ==
    CASE s = "1000" -> Num(100000)
      [] s = "1200" -> Num(120000)
      [] s = "1200.50" -> Num(120050)
      [] OTHER -> None      \* "1,200", "n/a", "": ValueError

\* float(v): a number, or None where float raises (None, a bad string).
ToFloat(v) ==
    IF IsNum(v) THEN v
    ELSE IF IsStr(v) THEN ParseFloat(v.str)
    ELSE IF IsBool(v) THEN Num(IF v.bool THEN 100 ELSE 0)
    ELSE None

\* Mutant: a connection is handed out although the store cannot be reached.
ConnectStale(env) == [db |-> env.store]

\* verifier.py 22-28: the connection, or None when connecting fails.
Connect(env) == IF env.reachable THEN [db |-> env.store] ELSE None

DefaultVerification ==
    [ invoice_exists |-> Bool(FALSE), invoice_id |-> None, invoice_amount |-> None,
      po_exists |-> Bool(FALSE), po_id |-> None,
      grn_exists |-> Bool(FALSE), grn_ids |-> <<>>,
      contradictions |-> <<>> ]

\* verifier.py 48-55: the invoice lookup.
LookupInvoice(out, invoice, db) ==
    IF Truthy(invoice) /\ invoice.str \in DOMAIN db.invoice
    THEN LET r == db.invoice[invoice.str]
         IN  [out EXCEPT !.invoice_exists = Bool(TRUE),
                         !.invoice_id = Num(r.invoice_id),
                         !.invoice_amount = r.amount]
               @@ [invoice_status |-> r.sap_status]
    ELSE out

\* verifier.py 56-67: the purchase order lookup and its goods receipts.
LookupPO(out, po, db) ==
    IF Truthy(po) /\ po.str \in DOMAIN db.purchase_order
    THEN LET po_id == db.purchase_order[po.str]
             rows == IF po_id \in DOMAIN db.goods_receipt
                     THEN db.goods_receipt[po_id] ELSE <<>>
             o1 == [out EXCEPT !.po_exists = Bool(TRUE), !.po_id = Num(po_id)]
         IN  IF rows # <<>>
             THEN [o1 EXCEPT !.grn_exists = Bool(TRUE), !.grn_ids = rows]
             ELSE o1
    ELSE out

\* verifier.py 71-76: both amounts truthy, and float(claimed) - invoice amount
\* more than 1.0 apart; a failing float() is swallowed.
AmountMismatch(claimed, invoice_amount) ==
    /\ Truthy(claimed) /\ Truthy(invoice_amount)
    /\ ToFloat(claimed) # None
    /\ Abs(ToFloat(claimed).num - invoice_amount.num) > TOLERANCE

\* verifier.py 68-76: the contradictions, in the order of the checks.
DetectContradictions(out, extraction) ==
    LET c1 == IF extraction.claim_type = Str("not_received") /\ out.grn_exists.bool
              THEN <<"not_received_but_grn_exists">> ELSE <<>>
        c2 == IF AmountMismatch(extraction.claimed_amount, out.invoice_amount)
              THEN <<"amount_mismatch">> ELSE <<>>
    IN  [out EXCEPT !.contradictions = c1 \o c2]

verify(extraction, env) ==
    LET conn == Connect(env)
    IN  IF conn = None
        THEN DefaultVerification
        ELSE DetectContradictions(
                 LookupPO(LookupInvoice(DefaultVerification,
                                        extraction.invoice_number, conn.db),
                          extraction.po_number, conn.db),
                 extraction)

\* Record stores of the model: invoice number -> row, PO number -> po_id,
\* po_id -> goods receipt ids.
Stores ==
    { [invoice |-> EmptyDict, purchase_order |-> EmptyDict, goods_receipt |-> EmptyDict],
      [invoice |-> ("INV-4521" :>
                      [invoice_id |-> 1, amount |-> Num(100000), sap_status |-> "posted"]),
       purchase_order |-> ("4512345" :> 7),
       goods_receipt |-> (7 :> <<11, 12>>)],
      [invoice |-> ("INV-4521" :>
                      [invoice_id |-> 1, amount |-> Num(0), sap_status |-> "posted"]),
       purchase_order |-> ("4512345" :> 7),
       goods_receipt |-> EmptyDict],
      [invoice |-> ("INV-4521" :>
                      [invoice_id |-> 1, amount |-> None, sap_status |-> "parked"]),
       purchase_order |-> EmptyDict,
       goods_receipt |-> EmptyDict] }

ClaimedAmounts ==
    { None, Num(0), Num(100000), Num(100100), Num(100101), Num(99899),
      Num(50000), Str("1000"), Str("1,200"), Str("1200.50") }

VerifyExtractions ==
    [ invoice_number : {None, Str(""), Str("INV-4521"), Str("INV-9999")},
      po_number : {None, Str("4512345"), Str("4599999")},
      claimed_amount : ClaimedAmounts,
      claim_type : {None, Str("not_received"), Str("other")} ]

VerifyInputs ==
    [ extraction : VerifyExtractions, store : Stores, reachable : BOOLEAN ]

VerifyInit ==
    /\ vf_in \in VerifyInputs
    /\ vf_out = NoResult
    /\ sc_in = NoResult
    /\ sc_out = NoResult
    /\ CacheIdle
    /\ BatchIdle
    /\ MergeIdle

VerifyCall ==
    /\ vf_out = NoResult
    /\ vf_out' = verify(vf_in.extraction, [store |-> vf_in.store,
                                           reachable |-> vf_in.reachable])
    /\ UNCHANGED <<vf_in, scoreVars, cacheVars, batchVars, mergeVars>>

VerifyReset ==
    /\ vf_out # NoResult
    /\ vf_in' \in VerifyInputs
    /\ vf_out' = NoResult
    /\ UNCHANGED <<scoreVars, cacheVars, batchVars, mergeVars>>

VerifyNext == VerifyCall \/ VerifyReset

SpecVerify == VerifyInit /\ [][VerifyNext]_vars

---------------------------------------------------------------------------
(* Claims about verify *)

Verified == vf_out # NoResult

\* C6: with the record store unreachable, verify returns, whatever the
\* extraction holds, all existence flags false, no ids, no amount, no goods
\* receipt ids and no contradictions; it returns a result (it does not raise).
C6_OfflineDefaults ==
    (Verified /\ ~vf_in.reachable) =>
      /\ DOMAIN vf_out = { "invoice_exists", "invoice_id", "invoice_amount",
                           "po_exists", "po_id", "grn_exists", "grn_ids",
                           "contradictions" }
      /\ vf_out.invoice_exists = Bool(FALSE)
      /\ vf_out.po_exists = Bool(FALSE)
      /\ vf_out.grn_exists = Bool(FALSE)
      /\ vf_out.invoice_id = None /\ vf_out.po_id = None
      /\ vf_out.invoice_amount = None
      /\ vf_out.grn_ids = <<>>
      /\ vf_out.contradictions = <<>>

\* C6 witness: an offline verification of an extraction that the same store, when
\* reachable, answers with records and a contradiction.
C6_Witness ==
    /\ Verified /\ ~vf_in.reachable
    /\ vf_in.extraction.invoice_number = Str("INV-4521")
    /\ verify(vf_in.extraction, [store |-> vf_in.store, reachable |-> TRUE])
          .contradictions # <<>>

Count(seq, x) == Cardinality({i \in 1..Len(seq) : seq[i] = x})

\* C10: with a reachable store, amount_mismatch is among the contradictions
\* exactly when the claimed amount and the looked-up invoice amount are both
\* non-null and lie more than 1.0 apart; it appears at most once and after
\* not_received_but_grn_exists.
C10_AmountMismatchExactly ==
    (Verified /\ vf_in.reachable) =>
      LET claimed == vf_in.extraction.claimed_amount
          amount == vf_out.invoice_amount
          c == vf_out.contradictions
          apart == /\ claimed # None /\ amount # None
                   /\ ToFloat(claimed) # None
                   /\ Abs(ToFloat(claimed).num - amount.num) > 100
      IN  /\ (Count(c, "amount_mismatch") > 0) <=> apart
          /\ Count(c, "amount_mismatch") <= 1
          /\ (Count(c, "amount_mismatch") = 1 /\ Count(c, "not_received_but_grn_exists") = 1)
                => c = <<"not_received_but_grn_exists", "amount_mismatch">>

---------------------------------------------------------------------------
(* Email text.  A text is a sequence of chunks; every regular expression   *)
(* match of the model lies within one chunk, and each table below gives    *)
(* what the source's expression and normalisation yield on that chunk.     *)

NL == "\n"

\* re.search: the first match among the per-chunk matches; None when no
\* chunk matches.
FirstMatch(matches) ==
    LET hits == {i \in 1..Len(matches) : matches[i] # None}
    IN  IF hits = {} THEN None
        ELSE matches[CHOOSE i \in hits : \A j \in hits : i <= j]

---------------------------------------------------------------------------
(* src/ai/email_parser_llm.py *)

\* INVOICE_RE, then upper().replace(" ", "-").
ParserInvoiceChunk(c) ==
    CASE c = "INV-4521" -> Str("INV-4521")
      [] c = "inv 4521" -> Str("INV-4521")
      [] OTHER -> None

\* PO_RE, then "PO" and "-" removed and "45" prepended when missing.
ParserPoChunk(c) ==
    CASE c = "PO-1234" -> Str("451234")
      [] c = "4512345" -> Str("4512345")
      [] OTHER -> None

\* AMOUNT_RE.finditer on one chunk, as floats (in 1/100): the grouped-digits
\* alternative also matches inside invoice and PO numbers, and takes "1,00"
\* out of "1,000".
ParserAmountsChunk(c) ==
    CASE c = "INV-4521" -> <<452100>>
      [] c = "inv 4521" -> <<452100>>
      [] c = "PO-1234" -> <<123400>>
      [] c = "4512345" -> <<45123400>>
      [] c = "INR 1,000" -> <<10000>>
      [] c = "0,000" -> <<0>>
      [] OTHER -> <<>>

extract_invoice_regex(text) == FirstMatch([i \in 1..Len(text) |-> ParserInvoiceChunk(text[i])])

extract_po_regex(text) == FirstMatch([i \in 1..Len(text) |-> ParserPoChunk(text[i])])

RECURSIVE extract_amounts_regex(_)
extract_amounts_regex(text) ==
    IF text = <<>> THEN <<>>
    ELSE ParserAmountsChunk(Head(text)) \o extract_amounts_regex(Tail(text))

\* sha256 of subject + "\n" + body, taken to be injective on the joined text.
MakeKey(subject, body) == subject \o <<NL>> \o body

\* A provider reply is an error (the call raised) or a raw text: a sequence of
\* lines, each a code fence, prose, a JSON object or braces around invalid JSON.
Fence == [fence |-> TRUE]
Prose == [prose |-> TRUE]
BadBraces == [bad |-> TRUE]
Json(d) == [json |-> d]
ProviderError == [error |-> TRUE]
Raw(lines) == [raw |-> lines]

HasBrace(line) == DOMAIN line = {"json"} \/ line = BadBraces

Raised(what) == [raised |-> what]
IsRaised(v) == DOMAIN v = {"raised"}

BraceLines(s) == {i \in 1..Len(s) : HasBrace(s[i])}
First(S) == CHOOSE i \in S : \A j \in S : i <= j
Last(S) == CHOOSE i \in S : \A j \in S : i >= j

\* email_parser_llm.py 156-166: fenced output is cut to the lines from the first
\* "{" to the last "}"; without such lines the backticks are stripped.
StripFences(raw) ==
    IF Len(raw) > 0 /\ raw[1] = Fence
    THEN IF BraceLines(raw) # {}
         THEN SubSeq(raw, First(BraceLines(raw)), Last(BraceLines(raw)))
         ELSE SelectSeq(raw, LAMBDA l : l # Fence)
    ELSE raw

\* Mutant: output without a JSON object is taken as an empty object.
ParseLLMOutputLenient(raw) ==
    LET s == StripFences(raw)
        b == BraceLines(s)
    IN  IF b = {} THEN EmptyDict
        ELSE LET json_text == SubSeq(s, First(b), Last(b))
             IN  IF Len(json_text) = 1 /\ json_text[1] # BadBraces
                 THEN json_text[1].json
                 ELSE EmptyDict

\* email_parser_llm.py 156-175: re.search(r"(\{.*\})", s, re.S) and json.loads.
ParseLLMOutput(raw) ==
    LET s == StripFences(raw)
        b == BraceLines(s)
    IN  IF b = {} THEN Raised("RuntimeError: LLM did not return JSON")
        ELSE LET json_text == SubSeq(s, First(b), Last(b))
             IN  IF Len(json_text) = 1 /\ json_text[1] # BadBraces
                 THEN json_text[1].json
                 ELSE Raised("RuntimeError: Failed to parse JSON")

\* dict.get(k): None for a missing key.
Get(d, k) == IF k \in DOMAIN d THEN d[k] ELSE None

\* str.replace(",", "") on the strings of the model.
RemoveCommas(str) ==
    CASE str = "1,200" -> "1200"
      [] OTHER -> str

\* email_parser_llm.py 188-198: amounts to float, None where that fails.
CoerceAmount(v) ==
    IF IsStr(v) THEN ParseFloat(RemoveCommas(v.str))
    ELSE IF IsNone(v) THEN None
    ELSE ToFloat(v)

\* Mutant: the LLM value wins whenever it is not None.
MergeFieldPreferLLM(mine, theirs) == IF theirs # None THEN theirs ELSE mine

\* email_parser_llm.py 183-185: a regex value that is None or "" gives way to
\* an LLM value that is not None.
MergeField(mine, theirs) ==
    IF (mine = None \/ mine = Str("")) /\ theirs # None THEN theirs ELSE mine

\* email_parser_llm.py 183: the keys the merge loop goes through.
MergeKeys ==
    {"invoice_number", "po_number", "invoice_amount", "po_amount",
     "supplier_name", "issue_summary"}

Merge(result, llm_out) ==
    [k \in DOMAIN result |->
        IF k \in MergeKeys THEN MergeField(result[k], Get(llm_out, k)) ELSE result[k]]

\* email_parser_llm.py 116-131: the regex pass over subject + "\n" + body.
RegexPass(text) ==
    LET amounts == extract_amounts_regex(text)
    IN  [ invoice_number |-> extract_invoice_regex(text),
          po_number |-> extract_po_regex(text),
          invoice_amount |-> IF Len(amounts) > 0 THEN Num(amounts[1]) ELSE None,
          po_amount |-> IF Len(amounts) > 1 THEN Num(amounts[2]) ELSE None,
          supplier_name |-> None,
          issue_summary |-> Str("") ]

\* Mutant: the cache file is rewritten with the new entry alone.
SaveCacheOnlyNew(file, key, llm_out) == (key :> llm_out)

\* email_parser_llm.py 178-180: cache[key] = llm_out; save_cache(cache_file, cache).
SaveCache(file, key, llm_out) ==
    [k \in DOMAIN file \cup {key} |-> IF k = key THEN llm_out ELSE file[k]]

\* Mutant: the cache is never consulted.
CacheHitNever(cache, key) == FALSE

\* email_parser_llm.py 150: key in cache.
CacheHit(cache, key) == key \in DOMAIN cache

\* email_parser_llm.py 182-205: merge, coercion, summary default, metadata.
Finish(result, llm_out, used_llm, now) ==
    LET merged == Merge(result, llm_out)
        coerced == [merged EXCEPT !.invoice_amount = CoerceAmount(@),
                                  !.po_amount = CoerceAmount(@)]
        summed == IF Truthy(coerced.issue_summary) THEN coerced
                  ELSE [coerced EXCEPT
                          !.issue_summary = Str("Merged regex + LLM extraction")]
    IN  summed @@ [_meta |-> [extracted_at |-> now, used_llm |-> used_llm]]

\* extract_structured: the returned dict or the raised error (ret), the cache
\* file afterwards (file) and whether the provider was invoked (invoked).
\* cache_path is TRUE when a cache path is given; file is the parsed content of
\* the cache file ({} when missing); reply is what the provider would answer;
\* now is datetime.utcnow().
extract_structured(subject, body, use_llm_if_missing, cache_path, file, reply, now) ==
    LET text == subject \o <<NL>> \o body
        result == RegexPass(text)
        invoice == result.invoice_number
        po == result.po_number
        cache == IF cache_path THEN file ELSE EmptyDict
        key == MakeKey(subject, body)
    IN  IF Truthy(invoice) /\ Truthy(po)
        THEN [ ret |-> [result EXCEPT !.issue_summary =
                          [fmt |-> "Extracted invoice {} and PO {} via regex",
                           args |-> <<invoice.str, po.str>>]],
               file |-> file, invoked |-> FALSE ]
        ELSE IF ~use_llm_if_missing
        THEN [ ret |-> [result EXCEPT !.issue_summary =
                          Str("Incomplete via regex; LLM disabled")],
               file |-> file, invoked |-> FALSE ]
        ELSE IF CacheHit(cache, key)
        THEN [ ret |-> Finish(result, cache[key],
                              IF cache_path THEN key \notin DOMAIN cache ELSE TRUE, now),
               file |-> file, invoked |-> FALSE ]
        ELSE IF reply = ProviderError
        THEN [ ret |-> Raised("provider call failed"), file |-> file, invoked |-> TRUE ]
        ELSE LET llm_out == ParseLLMOutput(reply.raw)
                 after == IF cache_path THEN SaveCache(cache, key, llm_out) ELSE cache
             IN  IF IsRaised(llm_out)
                 THEN [ ret |-> llm_out, file |-> file, invoked |-> TRUE ]
                 ELSE [ ret |-> Finish(result, llm_out,
                                       IF cache_path THEN key \notin DOMAIN after ELSE TRUE,
                                       now),
                        file |-> IF cache_path THEN after ELSE file,
                        invoked |-> TRUE ]

\* What the provider may answer to extract_structured.
LLMOut1 ==
    [ invoice_number |-> Str("INV-7777"), po_number |-> Str("4500001"),
      invoice_amount |-> Num(120000), po_amount |-> Str("1,200"),
      supplier_name |-> Str("Acme"), issue_summary |-> Str("short delivery") ]

LLMOut2 ==
    [ invoice_number |-> None, invoice_amount |-> Str("n/a"),
      issue_summary |-> Str("") ]

Replies ==
    { ProviderError, Raw(<<Prose>>), Raw(<<BadBraces>>),
      Raw(<<Prose, Json(LLMOut1)>>),
      Raw(<<Fence, Json(LLMOut2), Fence>>) }

\* The emails of the model.
Email(id, from, subject, body) ==
    [email_id |-> id, from |-> from, subject |-> subject, body |-> body]

Emails ==
    { Email(1, <<"ap", "@abcchem.com">>, <<"hello">>, <<"INV-4521", "4512345", "short">>),
      Email(2, <<"a", "@other.com">>, <<"hello">>, <<"inv 4521", "not received">>),
      Email(3, <<>>, <<>>, <<"INR 0", "Tax">>) }

---------------------------------------------------------------------------
(* Calls of extract_structured on one cache file *)

MaxClock == 2

Init ==
    /\ sc_in = NoResult
    /\ sc_out = NoResult
    /\ vf_in = NoResult
    /\ vf_out = NoResult
    /\ CacheIdle
    /\ BatchIdle
    /\ MergeIdle

\* The bookkeeping of one extract_structured call with outcome r.
RecordCall(e, use_llm, cache_path, reply, now, r) ==
    LET key == MakeKey(e.subject, e.body)
    IN  /\ cache_file' = r.file
        /\ clock' = now
        /\ es_prev' = es_last
        /\ es_last' = [ subject |-> e.subject, body |-> e.body,
                        use_llm |-> use_llm, cache_path |-> cache_path,
                        warm |-> key \in DOMAIN cache_file,
                        reply |-> IF r.invoked THEN reply ELSE None,
                        ret |-> r.ret, invoked |-> r.invoked ]
        /\ succeeded' = IF cache_path /\ r.invoked /\ ~IsRaised(r.ret)
                        THEN succeeded \cup {key} ELSE succeeded
        /\ reinvoked' = IF cache_path /\ r.invoked /\ key \in succeeded
                        THEN reinvoked \cup {key} ELSE reinvoked

ExtractStructuredCall ==
    \E e \in Emails, use_llm \in BOOLEAN, cache_path \in BOOLEAN,
       reply \in Replies, now \in clock..Min(clock + 1, MaxClock) :
      \E r \in {extract_structured(e.subject, e.body, use_llm, cache_path,
                                   cache_file, reply, now)} :
          /\ RecordCall(e, use_llm, cache_path, reply, now, r)
          /\ UNCHANGED <<scoreVars, verifyVars, batchVars, mergeVars>>

Next == ExtractStructuredCall

Spec == Init /\ [][Next]_vars

---------------------------------------------------------------------------
(* The merge step of extract_structured (email_parser_llm.py 182-185) *)

\* A key the provider's JSON object does not have.
Absent == [absent |-> TRUE]

\* Email bodies that reach the merge step with different regex results, and
\* one (the first) that returns before it.
MergeBodies ==
    { <<"INV-4521", "4512345", "short">>,
      <<"inv 4521", "not received">>,
      <<"inv 4521", "0,000">>,
      <<"0,000", "PO-1234">>,
      <<"PO-1234">>,
      <<"INR 0", "Tax">> }

\* What json.loads may hold under each key: nothing, null, strings, numbers.
MergeValues ==
    [ invoice_number |-> {Absent, None, Str(""), Str("INV-7777")},
      po_number |-> {Absent, None, Str("4500001")},
      invoice_amount |-> {Absent, None, Num(0), Num(120000), Str("1,200")},
      po_amount |-> {None, Num(0), Str("n/a")},
      supplier_name |-> {None, Str(""), Str("Acme")},
      issue_summary |-> {Absent, Str(""), Str("short delivery")} ]

\* The dict with the keys of f that are not Absent.
Dict(f) == [k \in {j \in DOMAIN f : f[j] # Absent} |-> f[k]]

MergeInputs ==
    { [subject |-> <<>>, body |-> b, llm_out |-> Dict(f)] :
        b \in MergeBodies,
        f \in [ invoice_number : MergeValues.invoice_number,
                po_number : MergeValues.po_number,
                invoice_amount : MergeValues.invoice_amount,
                po_amount : MergeValues.po_amount,
                supplier_name : MergeValues.supplier_name,
                issue_summary : MergeValues.issue_summary ] }

MergeInit ==
    /\ mg_in \in MergeInputs
    /\ mg_out = NoResult
    /\ sc_in = NoResult
    /\ sc_out = NoResult
    /\ vf_in = NoResult
    /\ vf_out = NoResult
    /\ CacheIdle
    /\ BatchIdle

\* extract_structured from the regex pass to the end of the merge loop, for a
\* call that lets the LLM in and got llm_out from the provider or the cache.
MergeCall ==
    LET result == RegexPass(mg_in.subject \o <<NL>> \o mg_in.body)
    IN  /\ mg_out = NoResult
        /\ ~(Truthy(result.invoice_number) /\ Truthy(result.po_number))
        /\ mg_out' = [result |-> result, merged |-> Merge(result, mg_in.llm_out)]
        /\ UNCHANGED <<mg_in, scoreVars, verifyVars, cacheVars, batchVars>>

MergeNext == MergeCall

SpecMerge == MergeInit /\ [][MergeNext]_vars

\* C11: in the merge step, for each of the six keys, a pattern-derived value
\* that is present and non-empty is kept whatever the provider returned;
\* otherwise the merged result takes the provider's value when that is present
\* (the key is there and not null), and stays empty when it is not.
PresentNonEmpty(v) == v # None /\ v # Str("")

C11_MergePrecedence ==
    mg_out # NoResult =>
        \A k \in MergeKeys :
            LET pattern == mg_out.result[k]
                external == IF k \in DOMAIN mg_in.llm_out
                            THEN mg_in.llm_out[k] ELSE None
                merged == mg_out.merged[k]
            IN  IF PresentNonEmpty(pattern) THEN merged = pattern
                ELSE IF external # None THEN merged = external
                ELSE merged = pattern /\ ~PresentNonEmpty(merged)

\* A merge where a present pattern value (an amount of 0.0) was kept against a
\* different provider value, an absent one was filled from the provider and
\* one stayed empty.
C11_Witness ==
    /\ mg_out # NoResult
    /\ mg_out.result.invoice_amount = Num(0)
    /\ "invoice_amount" \in DOMAIN mg_in.llm_out
    /\ mg_in.llm_out.invoice_amount = Num(120000)
    /\ mg_out.merged.invoice_amount = Num(0)
    /\ mg_out.result.invoice_number = None
    /\ mg_out.merged.invoice_number = Str("INV-7777")
    /\ "issue_summary" \notin DOMAIN mg_in.llm_out
    /\ mg_out.merged.issue_summary = Str("")

---------------------------------------------------------------------------
(* src/agents/extractor.py *)

REGEX_CONFIDENCE == 6000

\* INV_RE, then replace(" ", "").
ExtractorInvoiceChunk(c) ==
    CASE c = "INV-4521" -> Str("INV-4521")
      [] c = "inv 4521" -> Str("inv4521")
      [] OTHER -> None

\* PO_RE (extractor.py), then replace(" ", "").
ExtractorPoChunk(c) ==
    CASE c = "PO-1234" -> Str("PO-1234")
      [] OTHER -> None

\* AMT_RE, then float(group(1).replace(",", "")), in 1/100.
ExtractorAmountChunk(c) ==
    CASE c = "INR 0" -> Num(0)
      [] c = "INR 1,000" -> Num(100000)
      [] OTHER -> None

\* str.lower() on one chunk.
LowerWord(c) ==
    CASE c = "Tax" -> "tax"
      [] c = "inv 4521" -> "inv 4521"
      [] c = "INV-4521" -> "inv-4521"
      [] c = "PO-1234" -> "po-1234"
      [] c = "INR 0" -> "inr 0"
      [] c = "INR 1,000" -> "inr 1,000"
      [] OTHER -> c

\* kw in body.lower(), for the keywords and chunks of the model.
Contains(body, kw) == \E i \in 1..Len(body) : LowerWord(body[i]) = kw

ClaimTypes ==
    {"short_delivery", "tax_mismatch", "not_received", "duplicate_invoice", "other"}

\* extractor.py 42-52: the first keyword family found decides.
InferClaimType(body) ==
    IF Contains(body, "short") THEN "short_delivery"
    ELSE IF Contains(body, "tax") THEN "tax_mismatch"
    ELSE IF Contains(body, "not received") \/ Contains(body, "never received")
         THEN "not_received"
    ELSE IF Contains(body, "duplicate") THEN "duplicate_invoice"
    ELSE "other"

Text(chunks) == [text |-> chunks]

regex_extract(body) ==
    LET claimed_amount == FirstMatch([i \in 1..Len(body) |-> ExtractorAmountChunk(body[i])])
    IN  [ invoice_number |-> FirstMatch([i \in 1..Len(body) |-> ExtractorInvoiceChunk(body[i])]),
          po_number |-> FirstMatch([i \in 1..Len(body) |-> ExtractorPoChunk(body[i])]),
          claimed_amount |-> claimed_amount,
          currency |-> IF Truthy(claimed_amount) THEN Str("INR") ELSE None,
          claim_type |-> Str(InferClaimType(body)),
          claim_text |-> Text(body),
          confidence |-> Num(REGEX_CONFIDENCE) ]

\* float(parsed.get("confidence", 0.5)): None where float raises.
ConfidenceOf(parsed) ==
    IF "confidence" \in DOMAIN parsed THEN ToFloat(parsed.confidence)
    ELSE Num(DEFAULT_CONFIDENCE)

\* _call_openai: the parsed reply with its confidence made a float, or None
\* (no key, no openai module, a failed call, output that json.loads or float
\* rejects).  The text is parsed as it is: fenced output does not parse.
call_openai(body, available, reply) ==
    IF ~available THEN None
    ELSE IF reply = ProviderError THEN None
    ELSE IF Len(reply.raw) = 1 /\ DOMAIN reply.raw[1] = {"json"}
         THEN LET parsed == reply.raw[1].json
              IN  IF ConfidenceOf(parsed) = None THEN None
                  ELSE [k \in DOMAIN parsed \cup {"confidence"} |->
                          IF k = "confidence" THEN ConfidenceOf(parsed) ELSE parsed[k]]
         ELSE None

\* extract: the provider's result when there is one, else the regex result.
extract(email_obj, available, reply) ==
    LET llm_result == call_openai(email_obj.body, available, reply)
    IN  IF llm_result # None
        THEN [ invoice_number |-> Get(llm_result, "invoice_number"),
               po_number |-> Get(llm_result, "po_number"),
               claimed_amount |-> Get(llm_result, "claimed_amount"),
               currency |-> Get(llm_result, "currency"),
               claim_type |-> Get(llm_result, "claim_type"),
               claim_text |-> Get(llm_result, "claim_text"),
               confidence |-> llm_result.confidence,
               llm_raw |-> llm_result ]
        ELSE regex_extract(email_obj.body) @@ [llm_raw |-> None]

\* What the provider may answer to _call_openai.
ClaimOut1 ==
    [ invoice_number |-> Str("INV-4521"), po_number |-> Str("4512345"),
      claimed_amount |-> Num(50000), currency |-> Str("INR"),
      claim_type |-> Str("not_received"), claim_text |-> Str("goods not received"),
      confidence |-> Num(9000) ]

ClaimOut2 == [ invoice_number |-> Str("INV-9999"), claimed_amount |-> Str("1,200") ]

ClaimReplies ==
    { ProviderError, Raw(<<Json(ClaimOut1)>>), Raw(<<Json(ClaimOut2)>>),
      Raw(<<Fence, Json(ClaimOut1), Fence>>) }

---------------------------------------------------------------------------
(* The batch programs: src/agents/extractor_agent.py and runner.py *)

MaxBatch == 3

\* The record store of a process_all run.
BatchStore ==
    [invoice |-> ("INV-4521" :>
                    [invoice_id |-> 1, amount |-> Num(100000), sap_status |-> "posted"]),
     purchase_order |-> ("4512345" :> 7),
     goods_receipt |-> (7 :> <<11, 12>>)]

BatchInit ==
    /\ sc_in = NoResult
    /\ sc_out = NoResult
    /\ vf_in = NoResult
    /\ vf_out = NoResult
    /\ CacheIdle
    /\ BatchIdle
    /\ MergeIdle

\* run_extraction starts: emails.json is loaded and the output file opened.
StartRunExtraction ==
    /\ pc = "idle"
    /\ pc' = "run_extraction"
    /\ total' \in 1..MaxBatch
    /\ UNCHANGED <<idx, written, world, ex_last, failed, produced>>
    /\ UNCHANGED <<scoreVars, verifyVars, cacheVars, mergeVars>>

\* extractor_agent.py 18-31: one email of the loop.  An error raised by
\* extract_structured is not caught: it leaves the loop and ends run_extraction.
RunExtractionStep ==
    /\ pc = "run_extraction"
    /\ \E e \in Emails, reply \in Replies, now \in clock..Min(clock + 1, MaxClock) :
       \E r \in {extract_structured(e.subject, e.body, TRUE, TRUE,
                                    cache_file, reply, now)} :
          /\ RecordCall(e, TRUE, TRUE, reply, now, r)
          /\ idx' = idx + 1
          /\ IF IsRaised(r.ret)
             THEN /\ pc' = "aborted"
                  /\ failed' = failed \cup {idx + 1}
                  /\ UNCHANGED <<written, produced>>
             ELSE /\ pc' = IF idx + 1 = total THEN "done" ELSE pc
                  /\ written' = Append(written,
                                   [ email_id |-> e.email_id, subject |-> e.subject,
                                     body |-> e.body, extracted |-> r.ret ])
                  /\ produced' = produced \cup {idx + 1}
                  /\ UNCHANGED failed
    /\ UNCHANGED <<total, world, ex_last>>
    /\ UNCHANGED <<scoreVars, verifyVars, mergeVars>>

\* process_all starts: the file is opened; the environment decides whether the
\* provider is available (OPENAI_API_KEY set and openai importable).
StartProcessAll ==
    /\ pc = "idle"
    /\ pc' = "process_all"
    /\ total' \in 1..MaxBatch
    /\ world' \in [available : BOOLEAN, store : {BatchStore}]
    /\ UNCHANGED <<idx, written, ex_last, failed, produced>>
    /\ UNCHANGED <<scoreVars, verifyVars, cacheVars, mergeVars>>

\* Whether the provider was asked and gave nothing _call_openai accepts.
ProviderFailed(email_obj, available, reply) ==
    available /\ call_openai(email_obj.body, available, reply) = None

\* runner.py 18-34: one line of the loop: extract, verify, score, append.
\* extract catches what the provider raises, the verifier what the connection
\* raises: no step of the loop ends process_all.
ProcessAllStep ==
    /\ pc = "process_all"
    /\ \E e \in Emails, reply \in ClaimReplies, reachable \in BOOLEAN :
       \E extraction \in {extract(e, world.available, reply)} :
          /\ ex_last' = [ email |-> e, available |-> world.available,
                          reply |-> IF world.available THEN reply ELSE None,
                          ret |-> extraction ]
          /\ idx' = idx + 1
          /\ LET verification ==
                     verify(extraction, [store |-> world.store,
                                         reachable |-> reachable])
                 score == compute_score(extraction, verification, e.from)
             IN  /\ pc' = IF idx + 1 = total THEN "done" ELSE pc
                 /\ written' = Append(written,
                                  [ email_id |-> e.email_id,
                                    subject |-> e.subject,
                                    extraction |-> extraction,
                                    verification |-> verification,
                                    score |-> score ])
                 /\ produced' = produced \cup {idx + 1}
                 /\ failed' = IF ProviderFailed(e, world.available, reply)
                              THEN failed \cup {idx + 1} ELSE failed
    /\ UNCHANGED <<total, world>>
    /\ UNCHANGED <<scoreVars, verifyVars, cacheVars, mergeVars>>

\* The program has ended; the next run starts from the files it left.
BatchExit ==
    /\ pc \in {"done", "aborted"}
    /\ pc' = "idle"
    /\ total' = 0
    /\ idx' = 0
    /\ written' = <<>>
    /\ world' = NoResult
    /\ ex_last' = NoResult
    /\ failed' = {}
    /\ produced' = {}
    /\ es_prev' = NoResult
    /\ es_last' = NoResult
    /\ UNCHANGED <<cache_file, clock, succeeded, reinvoked>>
    /\ UNCHANGED <<scoreVars, verifyVars, mergeVars>>

BatchNext ==
    \/ StartRunExtraction
    \/ RunExtractionStep
    \/ StartProcessAll
    \/ ProcessAllStep
    \/ BatchExit

SpecBatch == BatchInit /\ [][BatchNext]_vars

---------------------------------------------------------------------------
(* Claims about the cache of extract_structured *)

\* The latest call reached the consultation step: the patterns were incomplete
\* and the provider may be consulted.
ReachedConsultation(call) ==
    /\ call # NoResult
    /\ call.use_llm
    /\ ~(Truthy(extract_invoice_regex(call.subject \o <<NL>> \o call.body))
           /\ Truthy(extract_po_regex(call.subject \o <<NL>> \o call.body)))

\* C7: once a provider consultation for a (subject, body) has succeeded and been
\* cached, no later call sharing the cache invokes the provider for it again:
\* the entry stays in the cache and a call that finds it makes no invocation.
C7_NoReinvocation ==
    /\ reinvoked = {}
    /\ succeeded \subseteq DOMAIN cache_file
    /\ (ReachedConsultation(es_last) /\ es_last.cache_path /\ es_last.warm)
          => ~es_last.invoked

\* C7 witness: a call that reached the consultation step, found the entry of an
\* earlier successful consultation, and returned a merged result.
C7_Witness ==
    /\ ReachedConsultation(es_last) /\ es_last.cache_path /\ es_last.warm
    /\ MakeKey(es_last.subject, es_last.body) \in succeeded
    /\ ~IsRaised(es_last.ret) /\ "_meta" \in DOMAIN es_last.ret
    /\ Cardinality(succeeded) = 2

\* Two consecutive runs on the same (subject, body, trust flag), both on the
\* shared cache, which held the entry for that content before the first run.
TwoWarmRuns ==
    /\ es_prev # NoResult /\ es_last # NoResult
    /\ es_prev.cache_path /\ es_last.cache_path
    /\ es_prev.warm
    /\ es_prev.subject = es_last.subject
    /\ es_prev.body = es_last.body
    /\ es_prev.use_llm = es_last.use_llm

\* A result without the call time of its metadata.
WithoutTimestamp(ret) ==
    IF ~IsRaised(ret) /\ "_meta" \in DOMAIN ret
    THEN [ret EXCEPT !._meta = [used_llm |-> ret._meta.used_llm]]
    ELSE ret

\* C8 as stated: two runs on a warm cache return results identical in every field.
C8_IdenticalInEveryField ==
    TwoWarmRuns => es_last.ret = es_prev.ret

\* C8 amended: two runs on a warm cache return results identical in every field
\* except _meta.extracted_at, the time of the call.
C8_IdenticalButTimestamp ==
    TwoWarmRuns => WithoutTimestamp(es_last.ret) = WithoutTimestamp(es_prev.ret)

\* C8 witness: two warm runs that reached the merge step at different times.
C8_Witness ==
    /\ TwoWarmRuns
    /\ ReachedConsultation(es_last)
    /\ ~IsRaised(es_last.ret) /\ ~IsRaised(es_prev.ret)
    /\ es_last.ret._meta.extracted_at # es_prev.ret._meta.extracted_at
    /\ es_last.ret.supplier_name = Str("Acme")

---------------------------------------------------------------------------
(* Claims about the batch programs and the two extractors *)

Ended == pc \in {"done", "aborted"}

\* C1: when the provider fails on an email of a batch, only that email is
\* dropped: once the program has ended, every other position of the batch,
\* before and after the failing one, has its output record.
C1_BatchIsolatesFailures ==
    Ended => \A i \in 1..total : i \notin failed => i \in produced

\* Replies extract_structured cannot use: a failed call, output without a JSON
\* object, output whose braces hold no valid JSON.
UnusableReplies == { ProviderError, Raw(<<Prose>>), Raw(<<BadBraces>>) }

\* Replies _call_openai cannot use: a failed call, output json.loads rejects.
UnusableClaimReplies == { ProviderError, Raw(<<Fence, Json(ClaimOut1), Fence>>) }

\* The latest extract_structured call consulted the provider, which failed.
StructuredProviderFailed ==
    /\ es_last # NoResult
    /\ es_last.invoked
    /\ es_last.reply \in UnusableReplies

\* The patterns of extractor.py left the invoice or the PO number open.
PatternIncomplete(body) ==
    LET r == regex_extract(body)
    IN  r.invoice_number = None \/ r.po_number = None

\* The latest extract call consulted the provider, which failed.
ExtractProviderFailed ==
    /\ ex_last # NoResult
    /\ ex_last.available
    /\ ex_last.reply \in UnusableClaimReplies
    /\ PatternIncomplete(ex_last.email.body)

C9_ClaimTypeEnumerated ==
    world # NoResult =>
      \A i \in 1..Len(written) :
        /\ IsStr(written[i].extraction.claim_type)
        /\ written[i].extraction.claim_type.str \in ClaimTypes

=============================================================================
